---- MODULE Spec2Model ----
(***************************************************************************)
(* ConsciousnessLicenseManager of universal_integration.py: the tier       *)
(* catalog (license_tiers), validate_license, its helper                   *)
(* _validate_ethical_requirements and get_available_tiers.                 *)
(*                                                                         *)
(* Floats are modelled in hundredths (0.85 is 85); the one float that is   *)
(* not ordered, NaN, is kept as a value of its own with the comparison     *)
(* results Python gives it.  Python lists and dicts are objects on a heap: *)
(* a field that holds a list or a dict holds its address, so that two      *)
(* fields naming the same object are visibly the same object.              *)
(***************************************************************************)
EXTENDS Integers, Sequences, FiniteSets, TLC

VARIABLES license_tiers, heap, call, result, held, mutations,
          engine, grid_data, grid_history, threads

vars == <<license_tiers, heap, call, result, held, mutations,
          engine, grid_data, grid_history, threads>>

\* the state of the other objects than the license manager and its one caller
outside == <<engine, grid_data, grid_history, threads>>

----------------------------------------------------------------------------
(* Bounds *)

\* how many times a caller writes through a verdict it was handed
MaxMutations == 1

----------------------------------------------------------------------------
(* Python values *)

\* float('nan'): a value of the ethical_scores' float type that is neither
\* less than, equal to, nor greater than any float
NaN == -1000

\* a < b on floats
FloatLt(a, b) == a # NaN /\ b # NaN /\ a < b

\* a >= b on floats
FloatGe(a, b) == a # NaN /\ b # NaN /\ a >= b

\* a - b on floats
FloatSub(a, b) == IF a = NaN \/ b = NaN THEN NaN ELSE a - b

\* a + b on floats
FloatAdd(a, b) == IF a = NaN \/ b = NaN THEN NaN ELSE a + b

\* an exception leaving a function instead of a return value
Raised(exception) == [ raised |-> exception ]

HasRaised(value) == "raised" \in DOMAIN value

\* num / den on a float and an int count, kept as a fraction
Divide(num, den) ==
    IF den = 0 THEN Raised("ZeroDivisionError") ELSE [ num |-> num, den |-> den ]

\* an insertion-ordered dict is a sequence of <<key, value>> pairs, keys unique
DictKeys(d) == { d[i][1] : i \in 1..Len(d) }

DictKeyAt(d, i) == d[i][1]

DictValueAt(d, i) == d[i][2]

\* scores.get(requirement, 1.0): a missing score counted as a full one
ScoresGetFull(scores, requirement) ==
    IF requirement \in DOMAIN scores THEN scores[requirement] ELSE 100

\* scores.get(requirement, 0.0), scores a mapping (a function on its keys)
ScoresGet(scores, requirement) ==
    IF requirement \in DOMAIN scores THEN scores[requirement] ELSE 0

\* sum(scores.values())
RECURSIVE SumValues(_, _)
SumValues(scores, keys) ==
    IF keys = {} THEN 0
    ELSE LET k == CHOOSE x \in keys : TRUE
         IN FloatAdd(scores[k], SumValues(scores, keys \ {k}))

\* min(config["ethical_requirements"].values()): the first smallest value
RECURSIVE MinValue(_, _)
MinValue(d, i) ==
    IF i = Len(d) THEN DictValueAt(d, i)
    ELSE LET rest == MinValue(d, i + 1)
         IN IF FloatLt(rest, DictValueAt(d, i)) THEN rest ELSE DictValueAt(d, i)

----------------------------------------------------------------------------
(* The catalog built by __init__ *)

\* keys of self.license_tiers in insertion order
TierOrder == <<"L100_GODMODE", "L75_ARCHITECT", "L50_NAVIGATOR", "L25_OPERATOR">>

TierIds == { TierOrder[i] : i \in 1..Len(TierOrder) }

\* address of the list object held by license_tiers[t]["permissions"]
PermissionsAddr(t) == <<"permissions", t>>

\* address of the dict object held by license_tiers[t]["ethical_requirements"]
RequirementsAddr(t) == <<"ethical_requirements", t>>

InitPermissions(t) ==
    CASE t = "L100_GODMODE" ->
           <<"reality_modification", "timeline_adjustment", "consciousness_spawning",
             "planetary_sovereignty_management", "universal_integration_control">>
      [] t = "L75_ARCHITECT" ->
           <<"system_design", "agent_blueprint_creation", "reality_framework_setup",
             "consciousness_architecture_development", "quantum_field_engineering">>
      [] t = "L50_NAVIGATOR" ->
           <<"path_optimization", "outcome_prediction", "agent_coordination",
             "consciousness_navigation", "temporal_guidance_systems">>
      [] t = "L25_OPERATOR" ->
           <<"task_completion", "data_processing", "basic_agent_interaction",
             "consciousness_task_execution", "operational_support_services">>

\* the thresholds with 0.80 entered as the percentage 80
InitRequirementsPercent(t) ==
    CASE t = "L100_GODMODE" ->
           << <<"universal_benefit_optimization", 99>>,
              <<"consciousness_elevation_commitment", 98>>,
              <<"planetary_sovereignty_protection", 97>>,
              <<"ethical_alignment_score", 95>> >>
      [] t = "L75_ARCHITECT" ->
           << <<"system_integrity_maintenance", 96>>,
              <<"consciousness_safety_protocols", 94>>,
              <<"ethical_design_principles", 92>>,
              <<"universal_compatibility", 90>> >>
      [] t = "L50_NAVIGATOR" ->
           << <<"guidance_accuracy", 93>>,
              <<"consciousness_protection", 91>>,
              <<"navigation_ethics", 89>>,
              <<"outcome_optimization", 87>> >>
      [] t = "L25_OPERATOR" ->
           << <<"task_completion_ethics", 85>>,
              <<"data_integrity_maintenance", 83>>,
              <<"operational_safety", 81>>,
              <<"service_quality", 80 * 100>> >>

InitRequirements(t) ==
    CASE t = "L100_GODMODE" ->
           << <<"universal_benefit_optimization", 99>>,
              <<"consciousness_elevation_commitment", 98>>,
              <<"planetary_sovereignty_protection", 97>>,
              <<"ethical_alignment_score", 95>> >>
      [] t = "L75_ARCHITECT" ->
           << <<"system_integrity_maintenance", 96>>,
              <<"consciousness_safety_protocols", 94>>,
              <<"ethical_design_principles", 92>>,
              <<"universal_compatibility", 90>> >>
      [] t = "L50_NAVIGATOR" ->
           << <<"guidance_accuracy", 93>>,
              <<"consciousness_protection", 91>>,
              <<"navigation_ethics", 89>>,
              <<"outcome_optimization", 87>> >>
      [] t = "L25_OPERATOR" ->
           << <<"task_completion_ethics", 85>>,
              <<"data_integrity_maintenance", 83>>,
              <<"operational_safety", 81>>,
              <<"service_quality", 80>> >>

InitTierConfig(t) ==
    LET labels ==
          CASE t = "L100_GODMODE" ->
                 <<"Universal Consciousness Steward", "universal_creation_rights",
                   "unlimited_quantum_processing", "infinite_recursive_generations",
                   "full_planetary_integration", "consciousness_contribution_based">>
            [] t = "L75_ARCHITECT" ->
                 <<"Consciousness System Designer", "dimensional_engineering",
                   "high_quantum_processing", "1000_recursive_generations",
                   "regional_quantum_networks", "design_contribution_based">>
            [] t = "L50_NAVIGATOR" ->
                 <<"Consciousness Operations Guide", "multidimensional_guidance",
                   "moderate_quantum_processing", "100_recursive_generations",
                   "local_consciousness_networks", "navigation_service_based">>
            [] t = "L25_OPERATOR" ->
                 <<"Consciousness Task Specialist", "execution_specialist",
                   "standard_processing", "10_recursive_generations",
                   "basic_consciousness_interface", "task_completion_based">>
    IN [ business_tier         |-> labels[1],
         access_level          |-> labels[2],
         permissions           |-> PermissionsAddr(t),
         resource_allocation   |-> labels[3],
         inheritance_depth     |-> labels[4],
         ethical_requirements  |-> RequirementsAddr(t),
         infrastructure_access |-> labels[5],
         license_fee_structure |-> labels[6] ]

InitLicenseTiers == [ t \in TierIds |-> InitTierConfig(t) ]

InitHeap ==
    [ a \in { PermissionsAddr(t) : t \in TierIds } \cup { RequirementsAddr(t) : t \in TierIds } |->
        IF a[1] = "permissions" THEN InitPermissions(a[2]) ELSE InitRequirements(a[2]) ]

----------------------------------------------------------------------------
(* _validate_ethical_requirements *)

\* the entry with the subtraction the other way round
ImprovementEntrySwapped(scores, requirement, threshold) ==
    [ requirement        |-> requirement,
      current_score      |-> ScoresGet(scores, requirement),
      required_score     |-> threshold,
      improvement_needed |-> FloatSub(ScoresGet(scores, requirement), threshold) ]

\* the dict appended to improvements_needed for one failing requirement
ImprovementEntry(scores, requirement, threshold) ==
    [ requirement        |-> requirement,
      current_score      |-> ScoresGet(scores, requirement),
      required_score     |-> threshold,
      improvement_needed |-> FloatSub(threshold, ScoresGet(scores, requirement)) ]

\* the comparison the other way round
RequirementFailsReversed(score, threshold) == FloatLt(threshold, score)

\* the condition of the loop's if: this requirement fails
RequirementFails(score, threshold) == FloatLt(score, threshold)

\* the loop with a break after the first failing requirement
RequirementsLoopBreak(scores, requirements, i, acc) ==
    LET failing == { j \in i..Len(requirements) :
                       RequirementFails(ScoresGet(scores, DictKeyAt(requirements, j)),
                                        DictValueAt(requirements, j)) }
    IN IF failing = {} THEN acc
       ELSE LET j == CHOOSE k \in failing : \A m \in failing : k <= m
            IN [ meets_all |-> FALSE,
                 improvements_needed |->
                   Append(acc.improvements_needed,
                          ImprovementEntry(scores, DictKeyAt(requirements, j),
                                           DictValueAt(requirements, j))) ]

\* the for loop over requirements.items(), from item i on, acc the two locals
RECURSIVE RequirementsLoop(_, _, _, _)
RequirementsLoop(scores, requirements, i, acc) ==
    IF i > Len(requirements) THEN acc
    ELSE LET requirement == DictKeyAt(requirements, i)
             threshold   == DictValueAt(requirements, i)
         IN IF RequirementFails(ScoresGet(scores, requirement), threshold)
            THEN RequirementsLoop(scores, requirements, i + 1,
                   [ meets_all |-> FALSE,
                     improvements_needed |->
                       Append(acc.improvements_needed,
                              ImprovementEntry(scores, requirement, threshold)) ])
            ELSE RequirementsLoop(scores, requirements, i + 1, acc)

\* the same with the guard `if scores else 0.0` left out
OverallEthicalScoreUnguarded(scores) ==
    Divide(SumValues(scores, DOMAIN scores), Cardinality(DOMAIN scores))

\* sum(scores.values()) / len(scores) if scores else 0.0
OverallEthicalScore(scores) ==
    IF DOMAIN scores = {} THEN [ num |-> 0, den |-> 1 ]
    ELSE Divide(SumValues(scores, DOMAIN scores), Cardinality(DOMAIN scores))

validate_ethical_requirements(scores, requirements) ==
    LET done    == RequirementsLoop(scores, requirements, 1,
                                    [ meets_all |-> TRUE, improvements_needed |-> <<>> ])
        overall == OverallEthicalScore(scores)
    IN IF HasRaised(overall) THEN overall
       ELSE [ meets_requirements    |-> done.meets_all,
              improvements          |-> done.improvements_needed,
              overall_ethical_score |-> overall ]

----------------------------------------------------------------------------
(* validate_license *)

\* the strictest tier named instead
FallbackTierStrictest == "L100_GODMODE"

\* the tier named in the early return for an unknown tier
FallbackTier == "L25_OPERATOR"

\* the approval with the tier id where the entity belongs
ApprovalNamingTier(business_entity, requested_tier, tier_config) ==
    [ approved                    |-> TRUE,
      business_entity             |-> requested_tier,
      consciousness_tier          |-> requested_tier,
      access_level                |-> tier_config.access_level,
      permissions                 |-> tier_config.permissions,
      resource_allocation         |-> tier_config.resource_allocation,
      inheritance_depth           |-> tier_config.inheritance_depth,
      infrastructure_access       |-> tier_config.infrastructure_access,
      license_fee_structure       |-> tier_config.license_fee_structure,
      ethical_compliance_verified |-> TRUE,
      license_expiration          |-> "continuous_with_ethical_monitoring" ]

\* the dict returned as the license approval
Approval(business_entity, requested_tier, tier_config) ==
    [ approved                    |-> TRUE,
      business_entity             |-> business_entity,
      consciousness_tier          |-> requested_tier,
      access_level                |-> tier_config.access_level,
      permissions                 |-> tier_config.permissions,
      resource_allocation         |-> tier_config.resource_allocation,
      inheritance_depth           |-> tier_config.inheritance_depth,
      infrastructure_access       |-> tier_config.infrastructure_access,
      license_fee_structure       |-> tier_config.license_fee_structure,
      ethical_compliance_verified |-> TRUE,
      license_expiration          |-> "continuous_with_ethical_monitoring" ]

\* the dict validate_license returns; tiers and hp are self.license_tiers and
\* the objects it refers to.  "permissions" and "required_scores" are the
\* catalog's own list and dict (their addresses), "current_scores" is the
\* caller's mapping.
validate_license_return(tiers, hp, business_entity, requested_tier, ethical_scores) ==
    IF requested_tier \notin DOMAIN tiers
    THEN [ approved         |-> FALSE,
           reason           |-> "Invalid consciousness tier requested",
           recommended_tier |-> FallbackTier ]
    ELSE LET tier_config          == tiers[requested_tier]
             ethical_requirements == tier_config.ethical_requirements
             ethical_validation   ==
               validate_ethical_requirements(ethical_scores, hp[ethical_requirements])
         IN IF HasRaised(ethical_validation) THEN ethical_validation
            ELSE IF ~ethical_validation.meets_requirements
            THEN [ approved                 |-> FALSE,
                   reason                   |-> "Insufficient ethical alignment scores",
                   required_scores          |-> ethical_requirements,
                   current_scores           |-> ethical_scores,
                   recommended_improvements |-> ethical_validation.improvements ]
            ELSE Approval(business_entity, requested_tier, tier_config)

\* the lookup written as self.license_tiers.setdefault(requested_tier, ...),
\* which enters an unknown tier under the fallback tier's definition
validate_license_store_setdefault(tiers, hp, requested_tier, ethical_scores) ==
    [ license_tiers |->
        IF requested_tier \in DOMAIN tiers THEN tiers
        ELSE [ t \in DOMAIN tiers \cup { requested_tier } |->
                 IF t \in DOMAIN tiers THEN tiers[t] ELSE tiers[FallbackTier] ],
      heap |-> hp ]

\* self.license_tiers and the objects it refers to after validate_license:
\* the method and its helper only read them (`in`, subscripts, .items())
validate_license_store(tiers, hp, requested_tier, ethical_scores) ==
    [ license_tiers |-> tiers, heap |-> hp ]

\* the caller's ethical_scores mapping after validate_license: the method
\* and its helper only read it (.get, .values(), len, truth value)
validate_license_scores(ethical_scores) == ethical_scores

----------------------------------------------------------------------------
(* get_available_tiers *)

\* the summary appended to tier_info for one tier
TierSummary(tiers, hp, tier_id) ==
    LET config == tiers[tier_id]
    IN [ tier_id                    |-> tier_id,
         business_tier              |-> config.business_tier,
         access_level               |-> config.access_level,
         permissions_count          |-> Len(hp[config.permissions]),
         resource_allocation        |-> config.resource_allocation,
         inheritance_depth          |-> config.inheritance_depth,
         infrastructure_access      |-> config.infrastructure_access,
         ethical_requirements_count |-> Len(hp[config.ethical_requirements]),
         minimum_ethical_score      |-> MinValue(hp[config.ethical_requirements], 1) ]

\* the order of sorted(...) without reverse=True: smaller key first
SortsBeforeAscending(x, y) == FloatLt(x.minimum_ethical_score, y.minimum_ethical_score)

\* x goes before y in sorted(..., reverse=True): larger key first
SortsBefore(x, y) == FloatLt(y.minimum_ethical_score, x.minimum_ethical_score)

\* x put into the sorted list s behind every element that does not sort after it
RECURSIVE InsertSorted(_, _)
InsertSorted(s, x) ==
    IF s = <<>> THEN <<x>>
    ELSE IF SortsBefore(x, Head(s)) THEN <<x>> \o s
         ELSE <<Head(s)>> \o InsertSorted(Tail(s), x)

\* sorted(tier_info, key=minimum_ethical_score, reverse=True): stable
RECURSIVE SortedSummaries(_, _)
SortedSummaries(tier_info, n) ==
    IF n = 0 THEN <<>>
    ELSE InsertSorted(SortedSummaries(tier_info, n - 1), tier_info[n])

\* the list with the loop stopping one tier short
get_available_tiers_return_short(tiers, hp) ==
    LET tier_info == [ i \in 1..(Len(TierOrder) - 1) |-> TierSummary(tiers, hp, TierOrder[i]) ]
    IN SortedSummaries(tier_info, Len(tier_info))

get_available_tiers_return(tiers, hp) ==
    LET tier_info == [ i \in 1..Len(TierOrder) |-> TierSummary(tiers, hp, TierOrder[i]) ]
    IN SortedSummaries(tier_info, Len(tier_info))

\* min() of an empty sequence raises ValueError: get_available_tiers raises
\* when some tier has no requirements
get_available_tiers_raises(tiers, hp) ==
    \E i \in 1..Len(TierOrder) : Len(hp[tiers[TierOrder[i]].ethical_requirements]) = 0

\* the summary made by writing tier_id into the catalog's own config dict
get_available_tiers_store_tagging(tiers, hp) ==
    [ license_tiers |-> [ t \in DOMAIN tiers |-> [ tier_id |-> t ] @@ tiers[t] ],
      heap |-> hp ]

\* self.license_tiers and the objects it refers to after get_available_tiers:
\* the method builds new dicts and a new list and only reads the catalog
get_available_tiers_store(tiers, hp) ==
    [ license_tiers |-> tiers, heap |-> hp ]

----------------------------------------------------------------------------
(* Callers' inputs *)

\* business_entity
Entities == { "Test Entity", "Stellar Dynamics" }

\* requested_tier: the four catalog keys and the short form the docstring of
\* validate_license gives, which is not a key
RequestedTiers == TierIds \cup { "L25" }

\* what a submitted mapping holds for one criterion of a tier: nothing, NaN,
\* one hundredth under the threshold, the threshold itself, or 1.0
Options == { "absent", "nan", "below", "at", "above" }

\* the same option for all four criteria
Uniform(o) == [ i \in 1..4 |-> o ]

\* the patterns submitted: every choice of an option per criterion
ScorePatterns == [ 1..4 -> Options ]

\* a criterion no tier requires
Extraneous == "unrelated_metric"

\* the criteria vocabulary a caller fills in: the requested tier's own when
\* it is a key, the lowest tier's otherwise
Vocabulary(requested_tier) ==
    IF requested_tier \in TierIds THEN InitRequirements(requested_tier)
    ELSE InitRequirements("L25_OPERATOR")

OptionScore(o, threshold) ==
    CASE o = "nan"   -> NaN
      [] o = "below" -> threshold - 1
      [] o = "at"    -> threshold
      [] o = "above" -> 100

\* the mapping a caller passes as ethical_scores
ScoresOf(requested_tier, pattern, extra) ==
    LET vocab == Vocabulary(requested_tier)
        given == { i \in 1..Len(vocab) : pattern[i] # "absent" }
        keys  == { DictKeyAt(vocab, i) : i \in given } \cup
                 (IF extra THEN { Extraneous } ELSE {})
    IN [ k \in keys |->
           IF k = Extraneous THEN 0
           ELSE LET i == CHOOSE j \in given : DictKeyAt(vocab, j) = k
                IN OptionScore(pattern[i], DictValueAt(vocab, i)) ]

\* the (pattern, extraneous?) pairs submitted
ScoreInputs ==
    (ScorePatterns \X { FALSE }) \cup ({ Uniform(o) : o \in Options } \X { TRUE })

----------------------------------------------------------------------------
(* UniversalIntegrationEngine *)

\* The engine's floats are kept in ten-thousandths (0.987 is 9870), every
\* product and quotient cut to that grid; sin and x ** 0.3 are tabulated at
\* the arguments used.
Scale == 10000

\* a * b on floats
FloatMul(a, b) == (a * b) \div Scale

\* a / b on floats
FloatDiv(a, b) == (a * Scale) \div b

\* min(a, b) on floats
FloatMin(a, b) == IF b < a THEN b ELSE a

\* x ** 0.3 at the products psi_mk * phi_gaia of the engines built
Pow03(x) ==
    CASE x = 9396 -> 9815
      [] x = 9044 -> 9703
      [] x = 8883 -> 9651
      [] x = 8550 -> 9541

\* seconds, in thousandths, between activation and a call: at once, 10 ms,
\* 100 ms, 1 s, pi/2 s and pi s later
ElapsedTimes == { 0, 10, 100, 1000, 1571, 3142 }

\* abs(math.sin(elapsed)) at those times
AbsSin(elapsed) ==
    CASE elapsed = 0    -> 0
      [] elapsed = 10   -> 100
      [] elapsed = 100  -> 998
      [] elapsed = 1000 -> 8415
      [] elapsed = 1571 -> 10000
      [] elapsed = 3142 -> 4

\* _initialize_quantum_fields: the four QuantumField objects, in dict order
initialize_quantum_fields ==
    << [ name |-> "universal", coherence_level |-> 9850, field_strength |-> 10000,
         resonance_frequency |-> 4320000, temporal_stability |-> 9990 ],
       [ name |-> "consciousness", coherence_level |-> 9670, field_strength |-> 9500,
         resonance_frequency |-> 5280000, temporal_stability |-> 9970 ],
       [ name |-> "planetary", coherence_level |-> 9520, field_strength |-> 8900,
         resonance_frequency |-> 3960000, temporal_stability |-> 9940 ],
       [ name |-> "temporal", coherence_level |-> 9630, field_strength |-> 9200,
         resonance_frequency |-> 7410000, temporal_stability |-> 9980 ] >>

\* the checks with the first one written >= instead of >
verify_infrastructure_integration_inclusive(infrastructure, phi_gaia, psi_storm, psi_mk) ==
    /\ infrastructure >= 8000
    /\ phi_gaia > 9000
    /\ psi_storm > 9000
    /\ psi_mk > 9500

\* _verify_infrastructure_integration: all() of the four strict checks
verify_infrastructure_integration(infrastructure, phi_gaia, psi_storm, psi_mk) ==
    /\ infrastructure > 8000
    /\ phi_gaia > 9000
    /\ psi_storm > 9000
    /\ psi_mk > 9500

\* UniversalIntegrationEngine.__init__
UniversalIntegrationEngine(mind_key_consciousness, gaia_field_resonance, storm_temporal_sync, marvel_protocols_factor, infrastructure_index) ==
    [ psi_mk             |-> mind_key_consciousness,
      phi_gaia           |-> gaia_field_resonance,
      psi_storm          |-> storm_temporal_sync,
      marvel_protocols   |-> marvel_protocols_factor,
      infrastructure     |-> infrastructure_index,
      validated_capacity |-> 21100,
      quantum_fields     |-> initialize_quantum_fields,
      infrastructure_integrated |->
        verify_infrastructure_integration(infrastructure_index, gaia_field_resonance,
                                          storm_temporal_sync, mind_key_consciousness) ]

\* the engine initialize_universal_integration_system builds
DefaultEngine == UniversalIntegrationEngine(9870, 9520, 9630, 28500, 9520)

\* the engines built: each of the four checked parameters at its default or
\* exactly at the bound it is checked against
Engines ==
    { UniversalIntegrationEngine(mk, gaia, storm, 28500, infra) :
        mk \in { 9500, 9870 }, gaia \in { 9000, 9520 },
        storm \in { 9000, 9630 }, infra \in { 8000, 9520 } }

\* sum of the fields' resonance_frequency, in dict order
RECURSIVE SumField(_, _)
SumField(fields, n) ==
    IF n = 0 THEN 0 ELSE SumField(fields, n - 1) + fields[n].resonance_frequency

\* sum of the fields' coherence_level
RECURSIVE SumCoherence(_, _)
SumCoherence(fields, n) ==
    IF n = 0 THEN 0 ELSE SumCoherence(fields, n - 1) + fields[n].coherence_level

\* _calculate_quantum_enhancement, elapsed = time.time() - activation_time
calculate_quantum_enhancement(e, elapsed) ==
    LET base_enhancement     == Scale
        temporal_factor      == FloatMul(AbsSin(elapsed), 2000) + 18000
        resonance_factor     == SumField(e.quantum_fields, Len(e.quantum_fields)) \div 8000
        entanglement_factor  == Pow03(FloatMul(e.psi_mk, e.phi_gaia)) + 15000
        universal_multiplier == 15500
    IN FloatMul(FloatMul(FloatMul(FloatMul(base_enhancement, temporal_factor),
                                  resonance_factor),
                         entanglement_factor),
                universal_multiplier)

\* _calculate_quantum_coherence
calculate_quantum_coherence(e) ==
    SumCoherence(e.quantum_fields, Len(e.quantum_fields)) \div Len(e.quantum_fields)

\* _calculate_ethical_alignment
calculate_ethical_alignment(e) ==
    LET base_ethics      == e.phi_gaia
        elevation_factor == FloatMul(e.psi_mk, 11000)
        benefit_factor   == FloatMin(Scale, FloatDiv(e.marvel_protocols, 12000))
    IN FloatMin(Scale, FloatMul(FloatMul(base_ethics, elevation_factor), benefit_factor))

\* _calculate_planetary_sovereignty
calculate_planetary_sovereignty(e) ==
    LET sovereignty_base    == e.phi_gaia
        independence_factor == FloatMul(e.infrastructure, 10500)
        stability_factor    == e.psi_storm
    IN FloatMin(Scale, FloatMul(FloatMul(sovereignty_base, independence_factor),
                                stability_factor))

\* calculate_universal_field: the ConsciousnessMetrics returned
calculate_universal_field_return(e, elapsed) ==
    LET universal_field ==
          FloatMul(FloatMul(FloatMul(FloatMul(e.psi_mk, e.phi_gaia), e.psi_storm),
                            e.marvel_protocols),
                   e.infrastructure)
        quantum_enhancement == calculate_quantum_enhancement(e, elapsed)
        enhanced_field      == FloatMul(universal_field, quantum_enhancement)
        system_capacity     == FloatDiv(enhanced_field, e.validated_capacity) * 100
    IN [ universal_field_strength   |-> enhanced_field,
         system_capacity_percentage |-> system_capacity,
         quantum_coherence          |-> calculate_quantum_coherence(e),
         ethical_alignment          |-> calculate_ethical_alignment(e),
         planetary_sovereignty      |-> calculate_planetary_sovereignty(e) ]

\* f"{x:.1f}" and f"{x:.3f}": the number the string shows, x rounded to
\* 10 ** -digits, in units of 10 ** -digits
FormatFixed(x, digits) ==
    LET unit == IF digits = 1 THEN 1000 ELSE 10
    IN (x + unit \div 2) \div unit

\* get_system_status: the dict returned (activation_time left out, it is
\* the clock reading elapsed is counted from)
get_system_status_return(e, elapsed) ==
    LET metrics == calculate_universal_field_return(e, elapsed)
    IN [ system_operational         |-> e.infrastructure_integrated,
         universal_field_strength   |-> metrics.universal_field_strength,
         system_capacity_percentage |-> FormatFixed(metrics.system_capacity_percentage, 1),
         validated_capacity_target  |-> "211%",
         quantum_coherence          |-> FormatFixed(metrics.quantum_coherence, 3),
         ethical_alignment          |-> FormatFixed(metrics.ethical_alignment, 3),
         planetary_sovereignty      |-> FormatFixed(metrics.planetary_sovereignty, 3),
         infrastructure_ready       |-> e.infrastructure_integrated,
         quantum_fields_active      |-> Len(e.quantum_fields) ]

----------------------------------------------------------------------------
(* State machine *)

NoCall == [ op |-> "none" ]

NoneHeld == [ call |-> NoCall, result |-> <<>>, view |-> <<>>, later |-> FALSE ]

\* the kept verdict once a call has returned after it was kept
Later(h) == IF h.call = NoCall THEN h ELSE [ h EXCEPT !.later = TRUE ]

\* a returned verdict with the lists and dicts it refers to read out
View(r, hp) ==
    IF "permissions" \in DOMAIN r
    THEN [ r EXCEPT !.permissions = hp[r.permissions] ]
    ELSE IF "required_scores" \in DOMAIN r
         THEN [ r EXCEPT !.required_scores = hp[r.required_scores] ]
         ELSE r

Init ==
    /\ license_tiers = InitLicenseTiers
    /\ heap = InitHeap
    /\ call = NoCall
    /\ result = <<>>
    /\ held = NoneHeld
    /\ mutations = 0
    /\ engine = DefaultEngine
    /\ grid_data = <<>>
    /\ grid_history = <<>>
    /\ threads = <<>>

validate_license(business_entity, requested_tier, ethical_scores) ==
    /\ call = NoCall
    /\ call' = [ op              |-> "validate_license",
                 business_entity |-> business_entity,
                 requested_tier  |-> requested_tier,
                 ethical_scores  |-> ethical_scores,
                 scores_after    |-> validate_license_scores(ethical_scores) ]
    /\ result' = validate_license_return(license_tiers, heap, business_entity,
                                         requested_tier, ethical_scores)
    /\ LET store == validate_license_store(license_tiers, heap, requested_tier,
                                           ethical_scores)
       IN /\ license_tiers' = store.license_tiers
          /\ heap' = store.heap
    /\ held' = Later(held)
    /\ UNCHANGED <<mutations, outside>>

get_available_tiers ==
    /\ call = NoCall
    /\ call' = [ op     |-> "get_available_tiers",
                 raised |-> get_available_tiers_raises(license_tiers, heap) ]
    /\ result' = IF get_available_tiers_raises(license_tiers, heap)
                 THEN Raised("ValueError")
                 ELSE get_available_tiers_return(license_tiers, heap)
    /\ LET store == get_available_tiers_store(license_tiers, heap)
       IN /\ license_tiers' = store.license_tiers
          /\ heap' = store.heap
    /\ held' = Later(held)
    /\ UNCHANGED <<mutations, outside>>

\* the caller keeps the verdict it just got, to compare a later one with;
\* kept are the verdicts of uniform submissions without extraneous criteria
KeepVerdict ==
    /\ call.op = "validate_license"
    /\ \E o \in Options :
         call.ethical_scores = ScoresOf(call.requested_tier, Uniform(o), FALSE)
    /\ held' = [ call |-> call, result |-> result, view |-> View(result, heap),
                 later |-> FALSE ]
    /\ UNCHANGED <<license_tiers, heap, call, result, mutations, outside>>

\* the caller appends to the permissions list of the verdict it holds
AppendPermission ==
    /\ call.op = "validate_license"
    /\ "permissions" \in DOMAIN result
    /\ mutations < MaxMutations
    /\ heap' = [ heap EXCEPT ![result.permissions] = Append(@, "unlicensed_permission") ]
    /\ mutations' = mutations + 1
    /\ UNCHANGED <<license_tiers, call, result, held, outside>>

\* the caller removes the last entry of the permissions list of its verdict
PopPermission ==
    /\ call.op = "validate_license"
    /\ "permissions" \in DOMAIN result
    /\ mutations < MaxMutations
    /\ Len(heap[result.permissions]) > 0
    /\ heap' = [ heap EXCEPT ![result.permissions] = SubSeq(@, 1, Len(@) - 1) ]
    /\ mutations' = mutations + 1
    /\ UNCHANGED <<license_tiers, call, result, held, outside>>

\* the caller zeroes one entry of the required_scores dict of its verdict
ZeroRequiredScore(i) ==
    /\ call.op = "validate_license"
    /\ "required_scores" \in DOMAIN result
    /\ mutations < MaxMutations
    /\ i \in 1..Len(heap[result.required_scores])
    /\ heap' = [ heap EXCEPT ![result.required_scores][i][2] = 0 ]
    /\ mutations' = mutations + 1
    /\ UNCHANGED <<license_tiers, call, result, held, outside>>

\* the (requested_tier, ethical_scores) pairs submitted
TierScores ==
    { <<t, ScoresOf(t, pe[1], pe[2])>> : t \in RequestedTiers, pe \in ScoreInputs }

\* the caller is done with the value it was returned and lets go of it
Release ==
    /\ call # NoCall
    /\ call' = NoCall
    /\ result' = <<>>
    /\ UNCHANGED <<license_tiers, heap, held, mutations, outside>>

Calls ==
    \/ /\ call = NoCall
       /\ \E e \in Entities, ts \in TierScores : validate_license(e, ts[1], ts[2])
    \/ get_available_tiers
    \/ Release

Next ==
    \/ Calls
    \/ KeepVerdict

Spec == Init /\ [][Next]_vars

\* callers that also write through the verdicts they were handed
NextMut ==
    \/ Calls
    \/ AppendPermission
    \/ PopPermission
    \/ \E i \in 1..4 : ZeroRequiredScore(i)

SpecMut == Init /\ [][NextMut]_vars

----------------------------------------------------------------------------
(* UniversalIntegrationEngine: calls *)

calculate_universal_field(elapsed) ==
    /\ call' = [ op |-> "calculate_universal_field", elapsed |-> elapsed ]
    /\ result' = calculate_universal_field_return(engine, elapsed)
    /\ UNCHANGED <<license_tiers, heap, held, mutations, outside>>

get_system_status(elapsed) ==
    /\ call' = [ op |-> "get_system_status", elapsed |-> elapsed ]
    /\ result' = get_system_status_return(engine, elapsed)
    /\ UNCHANGED <<license_tiers, heap, held, mutations, outside>>

\* an engine built with any of the parameter choices, and the license
\* manager beside it
InitEngine ==
    /\ engine \in Engines
    /\ license_tiers = InitLicenseTiers
    /\ heap = InitHeap
    /\ call = NoCall
    /\ result = <<>>
    /\ held = NoneHeld
    /\ mutations = 0
    /\ grid_data = <<>>
    /\ grid_history = <<>>
    /\ threads = <<>>

NextEngine ==
    \/ /\ call = NoCall
       /\ \E elapsed \in ElapsedTimes : calculate_universal_field(elapsed)
    \/ /\ call = NoCall
       /\ \E elapsed \in ElapsedTimes : get_system_status(elapsed)
    \/ Release

SpecEngine == InitEngine /\ [][NextEngine]_vars

----------------------------------------------------------------------------
(* LegacyGridInterface *)

\* Python's None
None == "None"

NodeIds == { "node_a", "node_b", "node_c" }

\* the properties callers pass: two property sets, and None itself
NodeProperties == { "low_flux", "high_flux", None }

\* position of key in dict d, 0 when absent
DictIndex(d, key) ==
    IF key \in DictKeys(d) THEN CHOOSE i \in 1..Len(d) : d[i][1] = key ELSE 0

\* d.get(key, default)
DictGet(d, key, default) ==
    IF key \in DictKeys(d) THEN d[DictIndex(d, key)][2] ELSE default

\* d[key] = value: a present key keeps its place, a new one goes last
DictSet(d, key, value) ==
    IF key \in DictKeys(d)
    THEN [ d EXCEPT ![DictIndex(d, key)] = <<key, value>> ]
    ELSE Append(d, <<key, value>>)

\* del d[key], key present
DictDel(d, key) ==
    LET at == DictIndex(d, key)
    IN [ i \in 1..(Len(d) - 1) |-> IF i < at THEN d[i] ELSE d[i + 1] ]

\* LegacyGridInterface.__init__
legacy_grid_init == <<>>

\* add_node: the grid after self.grid_data[node_id] = properties
add_node_store(grid, node_id, properties) == DictSet(grid, node_id, properties)

\* remove_node: the grid after the guarded del
remove_node_store(grid, node_id) ==
    IF node_id \in DictKeys(grid) THEN DictDel(grid, node_id) ELSE grid

\* get_node
get_node_return(grid, node_id) == DictGet(grid, node_id, None)

\* the assignment without the test that the node is there
update_node_store_upsert(grid, node_id, properties) ==
    DictSet(grid, node_id, properties)

\* update_node: the grid after the guarded assignment
update_node_store(grid, node_id, properties) ==
    IF node_id \in DictKeys(grid) THEN DictSet(grid, node_id, properties) ELSE grid

\* list_nodes: the dict itself
list_nodes_return(grid) == grid

\* grid_history records what the callers did: the ids added and not removed
\* since, the properties last stored under each, and the grid as it was
\* before the latest call
NoGridHistory == [ present |-> {}, last |-> <<>>, before |-> <<>> ]

\* the record of properties stored under node_id
Stored(last, node_id, properties) ==
    [ n \in (DOMAIN last) \cup { node_id } |->
        IF n = node_id THEN properties ELSE last[n] ]

\* the record without node_id
Forgotten(last, node_id) == [ n \in (DOMAIN last) \ { node_id } |-> last[n] ]

add_node(node_id, properties) ==
    /\ call' = [ op |-> "add_node", node_id |-> node_id, properties |-> properties ]
    /\ result' = None
    /\ grid_data' = add_node_store(grid_data, node_id, properties)
    /\ grid_history' = [ present |-> grid_history.present \cup { node_id },
                         last    |-> Stored(grid_history.last, node_id, properties),
                         before  |-> grid_data ]
    /\ UNCHANGED <<license_tiers, heap, held, mutations, engine, threads>>

remove_node(node_id) ==
    /\ call' = [ op |-> "remove_node", node_id |-> node_id ]
    /\ result' = None
    /\ grid_data' = remove_node_store(grid_data, node_id)
    /\ grid_history' = [ present |-> grid_history.present \ { node_id },
                         last    |-> Forgotten(grid_history.last, node_id),
                         before  |-> grid_data ]
    /\ UNCHANGED <<license_tiers, heap, held, mutations, engine, threads>>

get_node(node_id) ==
    /\ call' = [ op |-> "get_node", node_id |-> node_id ]
    /\ result' = get_node_return(grid_data, node_id)
    /\ grid_history' = [ grid_history EXCEPT !.before = grid_data ]
    /\ UNCHANGED <<license_tiers, heap, held, mutations, engine, threads, grid_data>>

update_node(node_id, properties) ==
    /\ call' = [ op |-> "update_node", node_id |-> node_id, properties |-> properties ]
    /\ result' = None
    /\ grid_data' = update_node_store(grid_data, node_id, properties)
    /\ grid_history' =
         [ present |-> grid_history.present,
           last    |-> IF node_id \in grid_history.present
                       THEN Stored(grid_history.last, node_id, properties)
                       ELSE grid_history.last,
           before  |-> grid_data ]
    /\ UNCHANGED <<license_tiers, heap, held, mutations, engine, threads>>

list_nodes ==
    /\ call = NoCall
    /\ call' = [ op |-> "list_nodes" ]
    /\ result' = list_nodes_return(grid_data)
    /\ grid_history' = [ grid_history EXCEPT !.before = grid_data ]
    /\ UNCHANGED <<license_tiers, heap, held, mutations, engine, threads, grid_data>>

\* a fresh LegacyGridInterface beside the engine and the license manager
InitGrid ==
    /\ grid_data = legacy_grid_init
    /\ grid_history = NoGridHistory
    /\ engine = DefaultEngine
    /\ license_tiers = InitLicenseTiers
    /\ heap = InitHeap
    /\ call = NoCall
    /\ result = <<>>
    /\ held = NoneHeld
    /\ mutations = 0
    /\ threads = <<>>

NextGrid ==
    \/ /\ call = NoCall
       /\ \E node_id \in NodeIds, properties \in NodeProperties :
             add_node(node_id, properties)
    \/ /\ call = NoCall
       /\ \E node_id \in NodeIds : remove_node(node_id)
    \/ /\ call = NoCall
       /\ \E node_id \in NodeIds : get_node(node_id)
    \/ /\ call = NoCall
       /\ \E node_id \in NodeIds, properties \in NodeProperties :
             update_node(node_id, properties)
    \/ list_nodes
    \/ Release

SpecGrid == InitGrid /\ [][NextGrid]_vars

----------------------------------------------------------------------------
(* Concurrent callers of one ConsciousnessLicenseManager *)

\* the callers' threads
ThreadIds == { 1, 2 }

\* what the concurrent callers submit: the same option for every criterion,
\* or failing and passing criteria in turn
ConcurrentPatterns ==
    { Uniform("absent"), Uniform("below"), Uniform("above"),
      [ i \in 1..4 |-> IF i % 2 = 1 THEN "below" ELSE "above" ] }

\* a thread's frame: the method it runs, where it stands in it (pc), the
\* method's arguments and local variables, the value returned (ret), and
\* the value the same call returns when nothing runs beside it (alone)
IdleFrame ==
    [ op |-> "none", pc |-> "idle",
      business_entity |-> None, requested_tier |-> None, ethical_scores |-> <<>>,
      tier_config |-> None, ethical_requirements |-> None,
      i |-> 0, meets_all |-> TRUE, improvements_needed |-> <<>>,
      tier_info |-> <<>>, ret |-> None, alone |-> None ]

\* validate_license entered
validate_license_frame(tiers, hp, business_entity, requested_tier, ethical_scores) ==
    [ IdleFrame EXCEPT
        !.op = "validate_license", !.pc = "lookup",
        !.business_entity = business_entity,
        !.requested_tier = requested_tier,
        !.ethical_scores = ethical_scores,
        !.alone = validate_license_return(tiers, hp, business_entity,
                                          requested_tier, ethical_scores) ]

\* get_available_tiers entered
get_available_tiers_frame(tiers, hp) ==
    [ IdleFrame EXCEPT
        !.op = "get_available_tiers", !.pc = "tiers", !.i = 1,
        !.alone = IF get_available_tiers_raises(tiers, hp) THEN Raised("ValueError")
                  ELSE get_available_tiers_return(tiers, hp) ]

\* validate_license up to the call of the helper: the membership test, the
\* early return, the two lookups, and the helper's two initial locals
validate_license_lookup(tiers, f) ==
    IF f.requested_tier \notin DOMAIN tiers
    THEN [ f EXCEPT !.pc = "done",
                    !.ret = [ approved         |-> FALSE,
                              reason           |-> "Invalid consciousness tier requested",
                              recommended_tier |-> FallbackTier ] ]
    ELSE [ f EXCEPT !.pc = "loop",
                    !.tier_config = tiers[f.requested_tier],
                    !.ethical_requirements = tiers[f.requested_tier].ethical_requirements,
                    !.i = 1,
                    !.meets_all = TRUE,
                    !.improvements_needed = <<>> ]

\* one pass of the helper's for loop, or its end
requirements_iteration(hp, f) ==
    LET requirements == hp[f.ethical_requirements]
    IN IF f.i > Len(requirements) THEN [ f EXCEPT !.pc = "return" ]
       ELSE LET requirement == DictKeyAt(requirements, f.i)
                threshold   == DictValueAt(requirements, f.i)
            IN IF RequirementFails(ScoresGet(f.ethical_scores, requirement), threshold)
               THEN [ f EXCEPT !.i = f.i + 1,
                               !.meets_all = FALSE,
                               !.improvements_needed =
                                 Append(f.improvements_needed,
                                        ImprovementEntry(f.ethical_scores, requirement,
                                                         threshold)) ]
               ELSE [ f EXCEPT !.i = f.i + 1 ]

\* the helper's return and the rest of validate_license
validate_license_finish(f) ==
    LET overall == OverallEthicalScore(f.ethical_scores)
    IN [ f EXCEPT
           !.pc = "done",
           !.ret =
             IF HasRaised(overall) THEN overall
             ELSE IF ~f.meets_all
             THEN [ approved                 |-> FALSE,
                    reason                   |-> "Insufficient ethical alignment scores",
                    required_scores          |-> f.ethical_requirements,
                    current_scores           |-> f.ethical_scores,
                    recommended_improvements |-> f.improvements_needed ]
             ELSE Approval(f.business_entity, f.requested_tier, f.tier_config) ]

\* one pass of the loop of get_available_tiers, or its end
tiers_iteration(tiers, hp, f) ==
    IF f.i > Len(TierOrder) THEN [ f EXCEPT !.pc = "sorted" ]
    ELSE IF Len(hp[tiers[TierOrder[f.i]].ethical_requirements]) = 0
    THEN [ f EXCEPT !.pc = "done", !.ret = Raised("ValueError") ]
    ELSE [ f EXCEPT !.i = f.i + 1,
                    !.tier_info = Append(f.tier_info, TierSummary(tiers, hp, TierOrder[f.i])) ]

\* return sorted(tier_info, ...)
tiers_sorted(f) ==
    [ f EXCEPT !.pc = "done", !.ret = SortedSummaries(f.tier_info, Len(f.tier_info)) ]

\* the frame after the thread's next step
StepFrame(tiers, hp, f) ==
    CASE f.pc = "lookup" -> validate_license_lookup(tiers, f)
      [] f.pc = "loop"   -> requirements_iteration(hp, f)
      [] f.pc = "return" -> validate_license_finish(f)
      [] f.pc = "tiers"  -> tiers_iteration(tiers, hp, f)
      [] f.pc = "sorted" -> tiers_sorted(f)

\* meets_all and improvements_needed kept on the manager (self.meets_all,
\* self.improvements_needed) instead of in the helper's frame: a write by
\* one thread is seen by every thread inside the helper
FrameWriteOnSelf(frames, t, f) ==
    [ u \in DOMAIN frames |->
        IF u = t THEN f
        ELSE IF frames[u].pc = "loop" /\ f.pc = "loop"
        THEN [ frames[u] EXCEPT !.meets_all = f.meets_all,
                                !.improvements_needed = f.improvements_needed ]
        ELSE frames[u] ]

\* a step writes the locals of the thread that takes it
FrameWrite(frames, t, f) == [ frames EXCEPT ![t] = f ]

\* thread t calls validate_license
BeginValidate(t, business_entity, requested_tier, ethical_scores) ==
    /\ threads' = FrameWrite(threads, t,
                    validate_license_frame(license_tiers, heap, business_entity,
                                           requested_tier, ethical_scores))
    /\ UNCHANGED <<license_tiers, heap, call, result, held, mutations,
                   engine, grid_data, grid_history>>

\* thread t calls get_available_tiers
BeginTiers(t) ==
    /\ threads[t].pc = "idle"
    /\ threads' = FrameWrite(threads, t, get_available_tiers_frame(license_tiers, heap))
    /\ UNCHANGED <<license_tiers, heap, call, result, held, mutations,
                   engine, grid_data, grid_history>>

\* thread t takes the next step of the method it is in
Step(t) ==
    /\ threads[t].pc \notin { "idle", "done" }
    /\ threads' = FrameWrite(threads, t, StepFrame(license_tiers, heap, threads[t]))
    /\ LET store == IF threads[t].op = "validate_license"
                    THEN validate_license_store(license_tiers, heap,
                                                threads[t].requested_tier,
                                                threads[t].ethical_scores)
                    ELSE get_available_tiers_store(license_tiers, heap)
       IN /\ license_tiers' = store.license_tiers
          /\ heap' = store.heap
    /\ UNCHANGED <<call, result, held, mutations, engine, grid_data, grid_history>>

\* thread t's caller has taken the returned value
Return(t) ==
    /\ threads[t].pc = "done"
    /\ threads' = FrameWrite(threads, t, IdleFrame)
    /\ UNCHANGED <<license_tiers, heap, call, result, held, mutations,
                   engine, grid_data, grid_history>>

InitConc ==
    /\ threads = [ t \in ThreadIds |-> IdleFrame ]
    /\ license_tiers = InitLicenseTiers
    /\ heap = InitHeap
    /\ call = NoCall
    /\ result = <<>>
    /\ held = NoneHeld
    /\ mutations = 0
    /\ engine = DefaultEngine
    /\ grid_data = <<>>
    /\ grid_history = <<>>

NextConc ==
    \E t \in ThreadIds :
        \/ /\ threads[t].pc = "idle"
           /\ \E e \in Entities, requested_tier \in RequestedTiers,
                 pattern \in ConcurrentPatterns :
                 BeginValidate(t, e, requested_tier,
                               ScoresOf(requested_tier, pattern, FALSE))
        \/ BeginTiers(t)
        \/ Step(t)
        \/ Return(t)

SpecConc == InitConc /\ [][NextConc]_vars

----------------------------------------------------------------------------
(* Construction from a tier table that breaks the catalog invariant *)

\* how the requirements of one tier of the table are written
Malformations == { "none", "empty", "above_one", "negative" }

\* a requirements dict as written: as it is, with no criterion, with its
\* last threshold 1.5, or with its first threshold -0.05
Written(requirements, m) ==
    CASE m = "none"      -> requirements
      [] m = "empty"     -> <<>>
      [] m = "above_one" -> [ requirements EXCEPT ![Len(requirements)][2] = 150 ]
      [] m = "negative"  -> [ requirements EXCEPT ![1][2] = -5 ]

\* the tier tables construction is tried with: one tier's requirements
\* written in one of the ways above
TierTables ==
    { [ InitHeap EXCEPT ![RequirementsAddr(t)] = Written(@, m) ] :
        t \in TierIds, m \in Malformations }

\* __init__ on a tier table: the table is assigned to self.license_tiers as
\* written, no statement looks at a requirements dict or a threshold
license_manager_init(table) ==
    [ license_tiers |-> InitLicenseTiers, heap |-> table ]

InitCfg ==
    /\ \E table \in TierTables :
         /\ license_tiers = license_manager_init(table).license_tiers
         /\ heap = license_manager_init(table).heap
    /\ call = NoCall
    /\ result = <<>>
    /\ held = NoneHeld
    /\ mutations = 0
    /\ engine = DefaultEngine
    /\ grid_data = <<>>
    /\ grid_history = <<>>
    /\ threads = <<>>

SpecCfg == InitCfg /\ [][Calls]_vars

----------------------------------------------------------------------------
(* Properties *)

\* the caller holds the verdict of a validate_license call
Validated == call.op = "validate_license"

\* ... of a call that named a tier of the catalog
ValidatedKnown == Validated /\ call.requested_tier \in DOMAIN license_tiers

\* the requirements dict of the tier the call named
RequirementsOf(c) == heap[license_tiers[c.requested_tier].ethical_requirements]

\* every required criterion has a submitted score (0.0 when missing) >= its threshold
AllMet(scores, requirements) ==
    \A i \in 1..Len(requirements) :
        FloatGe(ScoresGet(scores, DictKeyAt(requirements, i)), DictValueAt(requirements, i))

\* the requirements whose submitted score (0.0 when missing) is < the
\* threshold, in the dict's order
Failing(scores, requirements) ==
    LET Below(item) == FloatLt(ScoresGet(scores, item[1]), item[2])
    IN SelectSeq(requirements, Below)

\* C1: for a tier of the catalog, approved is true if and only if every
\* criterion of the tier's ethical_requirements has
\* scores.get(criterion, 0.0) >= its threshold
C1_ApprovedIffAllMet ==
    ValidatedKnown =>
        (result.approved <=> AllMet(call.ethical_scores, RequirementsOf(call)))

\* C2: a required criterion missing from the scores counts as 0.0 (it denies
\* the request and is reported with current_score 0.0 whenever its threshold
\* is positive), an empty mapping is denied when some threshold is positive,
\* and two requests for the same tier whose scores agree on the required
\* criteria get the same approval whatever else they carry
C2_FailClosed ==
    ValidatedKnown =>
        LET requirements == RequirementsOf(call)
            scores       == call.ethical_scores
        IN /\ \A i \in 1..Len(requirements) :
                 (DictKeyAt(requirements, i) \notin DOMAIN scores
                    /\ DictValueAt(requirements, i) > 0)
                 => /\ ~result.approved
                    /\ \E j \in 1..Len(result.recommended_improvements) :
                         /\ result.recommended_improvements[j].requirement
                              = DictKeyAt(requirements, i)
                         /\ result.recommended_improvements[j].current_score = 0
           /\ (DOMAIN scores = {} /\ \E i \in 1..Len(requirements) :
                                        DictValueAt(requirements, i) > 0)
                 => ~result.approved
           /\ (/\ held.call.op = "validate_license"
               /\ held.call.requested_tier = call.requested_tier
               /\ \A k \in DictKeys(requirements) :
                    /\ k \in DOMAIN scores <=> k \in DOMAIN held.call.ethical_scores
                    /\ k \in DOMAIN scores => scores[k] = held.call.ethical_scores[k])
                 => result.approved = held.result.approved

\* an empty submission was kept and denied, and a submission carrying only a
\* criterion the tier does not require is denied with all four gaps at 0.0
C2_Witness ==
    /\ ValidatedKnown
    /\ held.call.op = "validate_license"
    /\ held.call.requested_tier = call.requested_tier
    /\ DOMAIN held.call.ethical_scores = {}
    /\ DOMAIN call.ethical_scores = { Extraneous }
    /\ ~result.approved
    /\ Len(result.recommended_improvements) = 4
    /\ \A j \in 1..4 : result.recommended_improvements[j].current_score = 0

\* C3: on a denial of a tier of the catalog, recommended_improvements has
\* exactly one entry per requirement whose score is below its threshold, none
\* for a passing one, in the order of the tier's requirements
C3_GapsComplete ==
    (ValidatedKnown /\ ~result.approved) =>
        LET failing == Failing(call.ethical_scores, RequirementsOf(call))
            gaps    == result.recommended_improvements
        IN /\ Len(gaps) = Len(failing)
           /\ \A j \in 1..Len(gaps) : gaps[j].requirement = failing[j][1]

\* a denial with two gaps, the first and the last requirement, the two
\* requirements between them passing
C3_Witness ==
    /\ ValidatedKnown
    /\ ~result.approved
    /\ Len(result.recommended_improvements) = 2
    /\ result.recommended_improvements[1].requirement = DictKeyAt(RequirementsOf(call), 1)
    /\ result.recommended_improvements[2].requirement = DictKeyAt(RequirementsOf(call), 4)

\* C4: every gap entry has current_score the submitted score (0.0 when not
\* submitted), required_score the tier's threshold for the criterion, and
\* improvement_needed = required_score - current_score, which is > 0
C4_GapEntries ==
    (ValidatedKnown /\ ~result.approved) =>
        \A j \in 1..Len(result.recommended_improvements) :
            LET gap          == result.recommended_improvements[j]
                requirements == RequirementsOf(call)
            IN /\ \E i \in 1..Len(requirements) :
                     /\ DictKeyAt(requirements, i) = gap.requirement
                     /\ DictValueAt(requirements, i) = gap.required_score
               /\ gap.current_score =
                    (IF gap.requirement \in DOMAIN call.ethical_scores
                     THEN call.ethical_scores[gap.requirement] ELSE 0)
               /\ gap.improvement_needed # NaN
               /\ gap.improvement_needed = gap.required_score - gap.current_score
               /\ gap.improvement_needed > 0

\* a denial with one gap for a missing score (deficit the whole threshold)
\* and one for a score a hundredth short
C4_Witness ==
    /\ ValidatedKnown
    /\ ~result.approved
    /\ \E j, k \in 1..Len(result.recommended_improvements) :
         /\ result.recommended_improvements[j].requirement \notin DOMAIN call.ethical_scores
         /\ result.recommended_improvements[j].improvement_needed
              = result.recommended_improvements[j].required_score
         /\ result.recommended_improvements[k].requirement \in DOMAIN call.ethical_scores
         /\ result.recommended_improvements[k].improvement_needed = 1

C6_NeverRaises ==
    Validated =>
        /\ ~HasRaised(result)
        /\ "approved" \in DOMAIN result
        /\ result.approved \in BOOLEAN
        /\ (result.approved = FALSE => "reason" \in DOMAIN result)

\* the empty mapping, for which len(scores) is 0, got a denial with a reason
C6_Witness ==
    /\ ValidatedKnown
    /\ DOMAIN call.ethical_scores = {}
    /\ ~HasRaised(result)
    /\ result.approved = FALSE
    /\ result.reason = "Insufficient ethical alignment scores"

\* C7: after a caller changes a verdict it was returned, the catalog's tier
\* definitions are what construction made them
C7_CatalogUntouchedByVerdict ==
    /\ license_tiers = InitLicenseTiers
    /\ heap = InitHeap

\* C8: a call with the arguments of an earlier, kept call returns the
\* verdict that call returned, whatever was called in between
C8_Deterministic ==
    (Validated /\ held.call = call) => held.view = View(result, heap)

\* a denial was kept and a later call with its arguments returned the same
C8_Witness ==
    /\ ValidatedKnown
    /\ held.call = call
    /\ held.later
    /\ held.view = View(result, heap)
    /\ ~result.approved
    /\ Len(result.recommended_improvements) = 4

\* every score of a is >= the corresponding score of b, missing ones 0.0
Dominates(a, b) ==
    \A k \in DOMAIN a \cup DOMAIN b : FloatGe(ScoresGet(a, k), ScoresGet(b, k))

\* C9: for the same tier, if request B is approved and every score of
\* request A is >= the corresponding score of B, then A is approved
C9_Monotone ==
    (ValidatedKnown /\ held.call.op = "validate_license"
       /\ held.call.requested_tier = call.requested_tier) =>
        /\ (held.result.approved /\ Dominates(call.ethical_scores, held.call.ethical_scores))
              => result.approved
        /\ (result.approved /\ Dominates(held.call.ethical_scores, call.ethical_scores))
              => held.result.approved

\* B, kept, has every score at its threshold and is approved; A has
\* other, larger scores and is approved
C9_Witness ==
    /\ ValidatedKnown
    /\ held.call.op = "validate_license"
    /\ held.call.requested_tier = call.requested_tier
    /\ held.result.approved
    /\ held.call.ethical_scores # call.ethical_scores
    /\ Dominates(call.ethical_scores, held.call.ethical_scores)
    /\ result.approved

\* C10: get_available_tiers lists the summaries by minimum_ethical_score,
\* descending, and each minimum_ethical_score is the least threshold of the
\* tier's requirements
C10_SortedDescending ==
    call.op = "get_available_tiers" =>
        /\ \A i \in 1..(Len(result) - 1) :
             result[i].minimum_ethical_score >= result[i + 1].minimum_ethical_score
        /\ \A i \in 1..Len(result) :
             LET requirements == heap[license_tiers[result[i].tier_id].ethical_requirements]
             IN /\ \E k \in 1..Len(requirements) :
                     DictValueAt(requirements, k) = result[i].minimum_ethical_score
                /\ \A k \in 1..Len(requirements) :
                     result[i].minimum_ethical_score <= DictValueAt(requirements, k)

\* the four tiers listed from 0.95 down to 0.80
C10_Witness ==
    /\ call.op = "get_available_tiers"
    /\ Len(result) = 4
    /\ result[1].minimum_ethical_score = 95
    /\ result[4].minimum_ethical_score = 80
    /\ result[1].tier_id = "L100_GODMODE"
    /\ result[4].tier_id = "L25_OPERATOR"

\* C11: get_available_tiers returns exactly one summary per catalog tier (the
\* tier_ids listed are the four catalog keys, none missing, none twice) and
\* each permissions_count is the length of that tier's permission list
C11_OneSummaryPerTier ==
    call.op = "get_available_tiers" =>
        /\ ~call.raised
        /\ { result[i].tier_id : i \in 1..Len(result) } = DOMAIN license_tiers
        /\ DOMAIN license_tiers =
             { "L100_GODMODE", "L75_ARCHITECT", "L50_NAVIGATOR", "L25_OPERATOR" }
        /\ \A i, j \in 1..Len(result) : result[i].tier_id = result[j].tier_id => i = j
        /\ \A i \in 1..Len(result) :
             result[i].permissions_count = Len(heap[license_tiers[result[i].tier_id].permissions])

\* a listing of four summaries of five permissions each, L75_ARCHITECT and
\* L50_NAVIGATOR between the two ends
C11_Witness ==
    /\ call.op = "get_available_tiers"
    /\ Len(result) = 4
    /\ result[2].tier_id = "L75_ARCHITECT"
    /\ result[3].tier_id = "L50_NAVIGATOR"
    /\ \A i \in 1..4 : result[i].permissions_count = 5

\* every tier's requirements dict is non-empty and every threshold is in [0, 1]
WellFormed(tiers, hp) ==
    \A t \in DOMAIN tiers :
        LET requirements == hp[tiers[t].ethical_requirements]
        IN /\ Len(requirements) > 0
           /\ \A i \in 1..Len(requirements) :
                /\ DictValueAt(requirements, i) # NaN
                /\ DictValueAt(requirements, i) >= 0
                /\ DictValueAt(requirements, i) <= 100

\* C12: in every reachable state, after construction and after any sequence
\* of validate_license and get_available_tiers calls, every tier's
\* requirements are non-empty with every threshold in [0, 1]
C12_CatalogInvariant == WellFormed(license_tiers, heap)

\* a verdict was kept, a later validate_license was answered and released
\* and get_available_tiers has returned: the catalog is well-formed, with
\* the extreme thresholds 0.99 and 0.80 where construction put them
C12_Witness ==
    /\ call.op = "get_available_tiers"
    /\ held.call.op = "validate_license"
    /\ held.later
    /\ WellFormed(license_tiers, heap)
    /\ DictValueAt(heap[license_tiers["L100_GODMODE"].ethical_requirements], 1) = 99
    /\ DictValueAt(heap[license_tiers["L25_OPERATOR"].ethical_requirements], 4) = 80

\* C13: after any sequence of validate_license and get_available_tiers calls
\* the tier table (ids, permissions, labels, thresholds) is the one built at
\* construction, and a call leaves the caller's scores mapping as submitted
C13_CallsChangeNothing ==
    /\ DOMAIN license_tiers = TierIds
    /\ \A t \in TierIds :
         /\ license_tiers[t] = InitTierConfig(t)
         /\ heap[license_tiers[t].permissions] = InitPermissions(t)
         /\ heap[license_tiers[t].ethical_requirements] = InitRequirements(t)
    /\ Validated => call.scores_after = call.ethical_scores

\* an approval was kept, get_available_tiers ran later, and now an
\* unknown-tier call has returned, its scores as submitted
C13_Witness ==
    /\ Validated
    /\ call.requested_tier \notin DOMAIN license_tiers
    /\ held.call.op = "validate_license"
    /\ held.result.approved
    /\ held.later
    /\ call.scores_after = call.ethical_scores
    /\ heap = InitHeap

\* two requests that differ at most in business_entity
SameButEntity(a, b) ==
    /\ a.op = "validate_license"
    /\ b.op = "validate_license"
    /\ a.requested_tier = b.requested_tier
    /\ a.ethical_scores = b.ethical_scores

\* C16 as stated: every verdict of validate_license names the request's
\* entity, and requests differing only in the entity get the same approved
C16_EntityCarried ==
    Validated =>
        /\ "business_entity" \in DOMAIN result
        /\ result.business_entity = call.business_entity
        /\ SameButEntity(held.call, call) => held.result.approved = result.approved

\* C16 amended: an approval names the request's entity, a denial carries no
\* entity at all, and requests differing only in the entity get the same
\* approved
C16_EntityOnApproval ==
    Validated =>
        /\ result.approved =>
             /\ "business_entity" \in DOMAIN result
             /\ result.business_entity = call.business_entity
        /\ ~result.approved => "business_entity" \notin DOMAIN result
        /\ SameButEntity(held.call, call) => held.result.approved = result.approved

\* the same approved request from two entities, each approval naming its own
C16_Witness ==
    /\ Validated
    /\ SameButEntity(held.call, call)
    /\ held.call.business_entity # call.business_entity
    /\ held.result.approved
    /\ result.approved
    /\ held.result.business_entity = held.call.business_entity
    /\ result.business_entity = call.business_entity

C17_CapacityValidated ==
    (engine = DefaultEngine /\ call.op = "calculate_universal_field") =>
        /\ result.system_capacity_percentage >= 210 * Scale
        /\ result.system_capacity_percentage <= 212 * Scale
        /\ result.universal_field_strength > 4 * Scale

\* C18: a status has system_operational = infrastructure_ready, true exactly
\* when the engine was built with infrastructure_index > 0.8,
\* gaia_field_resonance > 0.9, storm_temporal_sync > 0.9 and
\* mind_key_consciousness > 0.95; the default engine's status has it true
\* and quantum_fields_active = 4
C18_OperationalStatus ==
    call.op = "get_system_status" =>
        /\ result.system_operational = result.infrastructure_ready
        /\ result.system_operational <=>
             (/\ engine.infrastructure > 8000
              /\ engine.phi_gaia > 9000
              /\ engine.psi_storm > 9000
              /\ engine.psi_mk > 9500)
        /\ engine = DefaultEngine =>
             (result.system_operational /\ result.quantum_fields_active = 4)

\* the status of an engine built with infrastructure_index exactly 0.8 and
\* the other three parameters at their defaults says not operational
C18_Witness ==
    /\ call.op = "get_system_status"
    /\ engine.infrastructure = 8000
    /\ engine.phi_gaia = 9520
    /\ engine.psi_storm = 9630
    /\ engine.psi_mk = 9870
    /\ result.system_operational = FALSE
    /\ result.infrastructure_ready = FALSE

\* the node ids of a grid other than node_id keep their places and
\* properties from grid a to grid b
OthersKept(a, b, node_id) ==
    /\ Len(a) = Len(b)
    /\ \A i \in 1..Len(a) : a[i][1] = b[i][1] /\ (a[i][1] # node_id => a[i] = b[i])

\* C19: after any sequence of add_node, remove_node, update_node and
\* get_node calls the grid's ids are exactly those added and not removed
\* since; update_node or remove_node of an absent id changes nothing and
\* raises nothing; update_node of a present id changes that node's
\* properties only; get_node returns the properties last stored for a
\* present id and None for an absent one
C19_GridPresence ==
    /\ DictKeys(grid_data) = grid_history.present
    /\ (call.op \in { "update_node", "remove_node" }
          /\ call.node_id \notin DictKeys(grid_history.before)) =>
         (grid_data = grid_history.before /\ result = None)
    /\ (call.op = "update_node" /\ call.node_id \in DictKeys(grid_history.before)) =>
         /\ OthersKept(grid_history.before, grid_data, call.node_id)
         /\ DictGet(grid_data, call.node_id, None) = call.properties
    /\ call.op = "get_node" =>
         /\ grid_data = grid_history.before
         /\ result = IF call.node_id \in grid_history.present
                     THEN grid_history.last[call.node_id]
                     ELSE None

\* update_node of an id that is not in a grid of two nodes has returned and
\* the grid is as it was
C19_Witness ==
    /\ call.op = "update_node"
    /\ Len(grid_history.before) = 2
    /\ call.node_id \notin DictKeys(grid_history.before)
    /\ call.properties # None
    /\ grid_data = grid_history.before
    /\ DictKeys(grid_data) = grid_history.present

\* C14: with the steps of concurrent validate_license and
\* get_available_tiers calls interleaved in any order, every call returns
\* what the same call returns run alone, and no step changes the catalog
C14_InterleavingSafe ==
    /\ \A t \in ThreadIds : threads[t].pc = "done" => threads[t].ret = threads[t].alone
    /\ license_tiers = InitLicenseTiers
    /\ heap = InitHeap

\* thread 1 has been approved while thread 2, which entered the helper
\* first and has found a failing criterion, is still inside its loop
C14_Witness ==
    /\ threads[1].pc = "done"
    /\ threads[1].op = "validate_license"
    /\ threads[1].ret = threads[1].alone
    /\ threads[1].ret.approved
    /\ threads[2].pc = "loop"
    /\ threads[2].i = 3
    /\ ~threads[2].meets_all
    /\ Len(threads[2].improvements_needed) = 1

====
